---- MODULE Spec2Model ----
(***************************************************************************)
(* Model of fastnum's signed decimal type `Decimal<N>` (src/decimal/dec.rs) *)
(* as a call machine: every step is one call of a public operation on      *)
(* operands drawn from bounded sets; the state records the call and what   *)
(* it produced (a returned value or a panic).                              *)
(*                                                                         *)
(* dec.rs delegates to the sub-modules cmp, normalize, scale, math and to  *)
(* the types Flags and Context.  Those are modelled from the written       *)
(* specification (sections 4.1 - 4.5) and carry the module prefix in       *)
(* their names (cmp_cmp, normalize_normalize, scale_with_scale, math_add,  *)
(* flags_neg, ...).  Everything without such a prefix is dec.rs itself.    *)
(***************************************************************************)
EXTENDS Integers, FiniteSets, Sequences, TLC

VARIABLES
    debug_assertions,   \* build configuration: cfg(debug_assertions)
    nan_order,          \* the comparator's fixed convention for NaN operands
    call,               \* the last call: operation and arguments
    ret,                \* what the call produced: [outcome, value]
    trap_checks         \* times the call consulted the context's trap policy

vars == <<debug_assertions, nan_order, call, ret, trap_checks>>

----------------------------------------------------------------------------
(* Widths.                                                                 *)

\* Bit width of the coefficient UInt<N>.  The real type has 64 * N bits.
Bits == 24

RECURSIVE Pow(_, _)
Pow(b, e) == IF e = 0 THEN 1 ELSE b * Pow(b, e - 1)

\* UInt::<N>::MAX
UIntMax == Pow(2, Bits) - 1

\* i16::MIN, i16::MAX : the range of the scale field
I16_MIN == -32768
I16_MAX == 32767

----------------------------------------------------------------------------
(* Flags: sign bit, special-value bits and the signal set (section 4.1).   *)

Signals == {"DIV_BY_ZERO", "INVALID", "OVERFLOW", "SUBNORMAL",
            "INEXACT", "ROUNDED", "CLAMPED"}

\* Flags::default() : no bit set
flags_default == [neg |-> FALSE, nan |-> FALSE, inf |-> FALSE, signals |-> {}]

flags_is_nan(f) == f.nan
flags_is_infinity(f) == f.inf
flags_is_special(f) == f.nan \/ f.inf
flags_is_negative(f) == f.neg
flags_has_signal(f, s) == s \in f.signals
flags_has_signals(f) == f.signals # {}
flags_signals(f) == f.signals
flags_is_empty(f) == f = flags_default

\* negate sign
flags_neg(f) == [f EXCEPT !.neg = ~f.neg]
\* force non-negative sign
flags_abs(f) == [f EXCEPT !.neg = FALSE]
\* union of two flag sets' signals onto f
flags_with_signals_from(f, g) == [f EXCEPT !.signals = f.signals \cup g.signals]
\* set one more signal
flags_raise_signal(f, s) == [f EXCEPT !.signals = f.signals \cup {s}]

----------------------------------------------------------------------------
(* Operation context: rounding mode + trap policy (section 3).             *)

RoundingModes == {"Up", "Down", "Ceiling", "Floor", "HalfUp", "HalfDown", "HalfEven"}

\* Context::default(): overflow, division by zero and invalid operation
\* trap; inexact and rounded results do not.
DefaultTraps == {"DIV_BY_ZERO", "INVALID", "OVERFLOW"}
Context_default == [rounding_mode |-> "HalfUp", traps |-> DefaultTraps]

with_rounding_mode(ctx, m) == [ctx EXCEPT !.rounding_mode = m]

\* Context::trap_signals : TRUE iff it terminates the call
trap_signals(ctx, signals) == signals \cap ctx.traps # {}

----------------------------------------------------------------------------
(* Decimal<N> { digits, scale, flags }                                     *)

new(digits, scale, flags) == [digits |-> digits, scale |-> scale, flags |-> flags]

ZERO == new(0, 0, flags_default)
ONE == new(1, 0, flags_default)
NAN == new(0, 0, [flags_default EXCEPT !.nan = TRUE])
INFINITY == new(0, 0, [flags_default EXCEPT !.inf = TRUE])
NEG_INFINITY == new(0, 0, [flags_default EXCEPT !.inf = TRUE, !.neg = TRUE])
MAX == new(UIntMax, 0, flags_default)

\* Outcome of a call: a returned value, or fatal termination.
Ok(v) == [outcome |-> "ok", value |-> v]
\* the absence of an argument or of a returned value
Nothing == [nothing |-> TRUE]

Panic == [outcome |-> "panic", value |-> Nothing]

is_op_subnormal(d) == flags_has_signal(d.flags, "SUBNORMAL")
is_op_ok(d) == ~flags_has_signals(d.flags)
is_subnormal(d) == is_op_subnormal(d)
is_finite(d) == ~flags_is_special(d.flags)
is_infinite(d) == flags_is_infinity(d.flags)
is_nan(d) == flags_is_nan(d.flags)
is_zero(d) == d.digits = 0
is_sign_negative(d) == flags_is_negative(d.flags)
is_negative(d) == flags_is_negative(d.flags)

\* classify with the zero test ahead of the special-value tests
classify_zero_first(d) ==
    IF d.digits = 0 THEN "Zero"
    ELSE IF flags_is_nan(d.flags) THEN "Nan"
    ELSE IF flags_is_infinity(d.flags) THEN "Infinite"
    ELSE IF is_subnormal(d) THEN "Subnormal"
    ELSE "Normal"

classify(d) ==
    IF flags_is_nan(d.flags) THEN "Nan"
    ELSE IF flags_is_infinity(d.flags) THEN "Infinite"
    ELSE IF d.digits = 0 THEN "Zero"
    ELSE IF is_subnormal(d) THEN "Subnormal"
    ELSE "Normal"

is_normal(d) == ~is_subnormal(d)

\* neg rebuilding the flags from scratch, losing category and signals
neg_fresh_flags(d) == [d EXCEPT !.flags = [flags_default EXCEPT !.neg = ~d.flags.neg]]

neg(d) == [d EXCEPT !.flags = flags_neg(d.flags)]

abs(d) == [d EXCEPT !.flags = flags_abs(d.flags)]

with_signals_from(d, other) ==
    [d EXCEPT !.flags = flags_with_signals_from(d.flags, other.flags)]

raise_signal(d, s) == [d EXCEPT !.flags = flags_raise_signal(d.flags, s)]

unwrap_signals(d, ctx) ==
    IF debug_assertions /\ trap_signals(ctx, flags_signals(d.flags))
    THEN Panic
    ELSE Ok(d)

\* calls of Context::trap_signals made by one call of unwrap_signals
unwrap_signals_checks == IF debug_assertions THEN 1 ELSE 0

\* ok testing the special-value bits only
ok_ignores_signals(d) ==
    IF flags_is_special(d.flags) THEN Nothing ELSE d

ok(d) ==
    IF flags_is_special(d.flags) \/ flags_has_signals(d.flags)
    THEN Nothing
    ELSE d

\* is_one without the test of the flags
is_one_ignores_flags(d) == d.digits = 1 /\ d.scale = 0

is_one(d) == d.digits = 1 /\ d.scale = 0 /\ flags_is_empty(d.flags)

\* -exp in i16: negating i16::MIN overflows, which panics when overflow
\* checks are compiled in (they follow debug_assertions) and wraps to
\* i16::MIN otherwise.
from_scale(exp) ==
    IF exp = I16_MIN THEN
        IF debug_assertions THEN Panic ELSE Ok(new(1, I16_MIN, flags_default))
    ELSE Ok(new(1, -exp, flags_default))

\* signum testing the sign ahead of NaN
signum_sign_first(d) ==
    IF is_negative(d) THEN neg(ONE)
    ELSE IF is_nan(d) THEN NAN
    ELSE ONE

signum(d) ==
    IF is_nan(d) THEN NAN
    ELSE IF is_negative(d) THEN neg(ONE)
    ELSE ONE

----------------------------------------------------------------------------
(* Comparator (section 4.2).                                               *)

\* c * 10^k, or -1 when the product exceeds UIntMax
RECURSIVE MulPow10(_, _)
MulPow10(c, k) ==
    IF k = 0 \/ c = 0 THEN c
    ELSE IF c > UIntMax \div 10 THEN -1
    ELSE MulPow10(c * 10, k - 1)

CmpInt(x, y) == IF x < y THEN "Less" ELSE IF x > y THEN "Greater" ELSE "Equal"

Reverse(o) == IF o = "Less" THEN "Greater" ELSE IF o = "Greater" THEN "Less" ELSE o

\* Magnitudes of two finite values at a common scale: the coefficient of
\* the operand with fewer fractional digits is multiplied by the power of
\* ten that gives both the same fractional-digit count.  A product beyond
\* UIntMax exceeds every coefficient, so the order is the exact one.
cmp_magnitude(a, b) ==
    LET s == IF a.scale > b.scale THEN a.scale ELSE b.scale
        x == MulPow10(a.digits, s - a.scale)
        y == MulPow10(b.digits, s - b.scale)
    IN  IF x = -1 THEN "Greater"
        ELSE IF y = -1 THEN "Less"
        ELSE CmpInt(x, y)

cmp_cmp(a, b) ==
    IF is_nan(a) \/ is_nan(b) THEN
        IF is_nan(a) /\ is_nan(b) THEN "Equal"
        ELSE IF is_nan(a) THEN (IF nan_order = "greatest" THEN "Greater" ELSE "Less")
        ELSE (IF nan_order = "greatest" THEN "Less" ELSE "Greater")
    ELSE IF is_infinite(a) \/ is_infinite(b) THEN
        IF is_infinite(a) /\ is_infinite(b) THEN
            IF is_negative(a) = is_negative(b) THEN "Equal"
            ELSE IF is_negative(a) THEN "Less" ELSE "Greater"
        ELSE IF is_infinite(a) THEN (IF is_negative(a) THEN "Less" ELSE "Greater")
        ELSE (IF is_negative(b) THEN "Greater" ELSE "Less")
    ELSE IF is_zero(a) /\ is_zero(b) THEN "Equal"
    ELSE IF is_negative(a) # is_negative(b) THEN
        (IF is_negative(a) THEN "Less" ELSE "Greater")
    ELSE IF is_negative(a) THEN Reverse(cmp_magnitude(a, b))
    ELSE cmp_magnitude(a, b)

cmp(a, b) == cmp_cmp(a, b)

lt(a, b) == cmp(a, b) = "Less"
\* le accepting Less only
le_strict(a, b) == cmp(a, b) = "Less"

le(a, b) == cmp(a, b) \in {"Less", "Equal"}
gt(a, b) == cmp(a, b) = "Greater"
ge(a, b) == cmp(a, b) \in {"Greater", "Equal"}

\* max keeping the first argument on a tie
max_first_on_tie(self, other) ==
    IF cmp(self, other) = "Less" THEN other ELSE self

max(self, other) ==
    IF cmp(self, other) \in {"Less", "Equal"} THEN other ELSE self

min(self, other) ==
    IF cmp(self, other) \in {"Less", "Equal"} THEN self ELSE other

\* clamp with the bounds checked by debug_assert! only
clamp_debug_assert(self, lo, hi) ==
    IF debug_assertions /\ ~le(lo, hi) THEN Panic
    ELSE IF cmp(self, lo) = "Less" THEN Ok(lo)
    ELSE IF cmp(self, hi) = "Greater" THEN Ok(hi)
    ELSE Ok(self)

clamp(self, lo, hi) ==
    IF ~le(lo, hi) THEN Panic
    ELSE IF cmp(self, lo) = "Less" THEN Ok(lo)
    ELSE IF cmp(self, hi) = "Greater" THEN Ok(hi)
    ELSE Ok(self)

----------------------------------------------------------------------------
(* Formatter (section 4.7).                                                *)

DigitChar(n) ==
    CASE n = 0 -> "0" [] n = 1 -> "1" [] n = 2 -> "2" [] n = 3 -> "3"
      [] n = 4 -> "4" [] n = 5 -> "5" [] n = 6 -> "6" [] n = 7 -> "7"
      [] n = 8 -> "8" [] n = 9 -> "9"

\* UInt::to_str_radix(10): the decimal digits, no leading zeros
RECURSIVE to_str_radix(_)
to_str_radix(n) ==
    IF n < 10 THEN DigitChar(n)
    ELSE to_str_radix(n \div 10) \o DigitChar(n % 10)

\* the exponent as printed: no plus sign, a minus sign when negative
ExponentStr(e) == IF e < 0 THEN "-" \o to_str_radix(-e) ELSE to_str_radix(e)

RECURSIVE Zeros(_)
Zeros(k) == IF k <= 0 THEN "" ELSE "0" \o Zeros(k - 1)

\* lead digits before the point, the remaining digits after it
Mantissa(digits, lead) ==
    IF lead >= Len(digits) THEN digits \o Zeros(lead - Len(digits))
    ELSE SubSeq(digits, 1, lead) \o "." \o SubSeq(digits, lead + 1, Len(digits))

format_write_scientific_notation(digits, scale) ==
    LET exponent == Len(digits) - 1 - scale
    IN  Mantissa(digits, 1) \o "e" \o ExponentStr(exponent)

format_write_engineering_notation(digits, scale) ==
    LET exponent == Len(digits) - 1 - scale
        shift == exponent % 3
    IN  Mantissa(digits, 1 + shift) \o "e" \o ExponentStr(exponent - shift)

\* write_scientific_notation writing the sign ahead of the NaN test
write_scientific_notation_sign_first(d) ==
    LET sign == IF is_sign_negative(d) THEN "-" ELSE ""
    IN  IF is_nan(d) THEN sign \o "NaN"
        ELSE IF is_infinite(d) THEN sign \o "Inf"
        ELSE IF is_zero(d) THEN sign \o "0e0"
        ELSE sign \o format_write_scientific_notation(to_str_radix(d.digits), d.scale)

write_scientific_notation(d) ==
    LET sign == IF is_sign_negative(d) THEN "-" ELSE ""
    IN  IF is_nan(d) THEN "NaN"
        ELSE IF is_infinite(d) THEN sign \o "Inf"
        ELSE IF is_zero(d) THEN sign \o "0e0"
        ELSE sign \o format_write_scientific_notation(to_str_radix(d.digits), d.scale)

write_engineering_notation(d) ==
    LET sign == IF is_sign_negative(d) THEN "-" ELSE ""
    IN  IF is_nan(d) THEN "NaN"
        ELSE IF is_infinite(d) THEN sign \o "Inf"
        ELSE IF is_zero(d) THEN sign \o "0e0"
        ELSE sign \o format_write_engineering_notation(to_str_radix(d.digits), d.scale)

to_scientific_notation(d) == write_scientific_notation(d)
to_engineering_notation(d) == write_engineering_notation(d)

-----------------------------------------------------------------------------
(* Normalizer (section 4.3).                                               *)

\* scale - 1 in i16: overflow panics when overflow checks are compiled in
\* (they follow debug_assertions) and wraps around otherwise.
RECURSIVE normalize_loop(_)
normalize_loop(d) ==
    IF d.digits = 0 \/ d.digits % 10 # 0 THEN Ok(d)
    ELSE IF d.scale = I16_MIN THEN
        IF debug_assertions THEN Panic
        ELSE normalize_loop([d EXCEPT !.digits = d.digits \div 10, !.scale = I16_MAX])
    ELSE normalize_loop([d EXCEPT !.digits = d.digits \div 10, !.scale = d.scale - 1])

normalize_normalize(d) ==
    IF is_zero(d) \/ ~is_finite(d) THEN Ok(d) ELSE normalize_loop(d)

\* normalized applying only the trap policy
normalized_noop(d, ctx) == unwrap_signals(d, ctx)

normalized(d, ctx) ==
    LET n == normalize_normalize(d)
    IN  IF n.outcome = "panic" THEN Panic ELSE unwrap_signals(n.value, ctx)

----------------------------------------------------------------------------
(* Rescaler (section 4.4).                                                 *)

\* Drop the k lowest decimal digits of c: the quotient q, the most
\* significant dropped digit lead, and whether any lower dropped digit
\* is nonzero (sticky).
RECURSIVE DropDigits(_, _, _, _)
DropDigits(c, k, lead, sticky) ==
    IF k = 0 \/ (c = 0 /\ lead = 0) THEN [q |-> c, lead |-> lead, sticky |-> sticky]
    ELSE DropDigits(c \div 10, k - 1, c % 10, sticky \/ lead # 0)

\* Does the magnitude q get incremented, given what was discarded?
round_increment(mode, negative, q, lead, sticky) ==
    LET inexact == lead # 0 \/ sticky
    IN  CASE mode = "Down" -> FALSE
          [] mode = "Up" -> inexact
          [] mode = "Ceiling" -> ~negative /\ inexact
          [] mode = "Floor" -> negative /\ inexact
          [] mode = "HalfUp" -> lead >= 5
          [] mode = "HalfDown" -> lead > 5 \/ (lead = 5 /\ sticky)
          [] mode = "HalfEven" -> lead > 5 \/ (lead = 5 /\ (sticky \/ q % 2 = 1))

scale_with_scale(d, new_scale, ctx) ==
    IF ~is_finite(d) \/ new_scale = d.scale THEN d
    ELSE IF new_scale > d.scale THEN
        LET m == MulPow10(d.digits, new_scale - d.scale)
        IN  IF m = -1
            THEN raise_signal(with_signals_from(NAN, d), "INVALID")
            ELSE [d EXCEPT !.digits = m, !.scale = new_scale]
    ELSE
        LET r == DropDigits(d.digits, d.scale - new_scale, 0, FALSE)
            up == round_increment(ctx.rounding_mode, is_negative(d), r.q, r.lead, r.sticky)
            v == [d EXCEPT !.digits = IF up THEN r.q + 1 ELSE r.q, !.scale = new_scale]
        IN  IF r.lead # 0 \/ r.sticky
            THEN raise_signal(raise_signal(v, "ROUNDED"), "INEXACT")
            ELSE raise_signal(v, "ROUNDED")

with_scale(d, new_scale, ctx) ==
    unwrap_signals(scale_with_scale(d, new_scale, ctx), ctx)

\* round dropping its rounding mode
round_default_mode(d, digits, rounding_mode) ==
    with_scale(d, digits, Context_default)

round(d, digits, rounding_mode) ==
    with_scale(d, digits, with_rounding_mode(Context_default, rounding_mode))

----------------------------------------------------------------------------
(* Arithmetic engine (section 4.5).                                        *)

\* the flags of a result: sign, category, and the signals of both operands
result_flags(negative, nan, inf, a, b) ==
    [neg |-> negative, nan |-> nan, inf |-> inf,
     signals |-> a.flags.signals \cup b.flags.signals]

nan_invalid(a, b) ==
    raise_signal(new(0, 0, result_flags(FALSE, TRUE, FALSE, a, b)), "INVALID")

infinity(negative, a, b) == new(0, 0, result_flags(negative, FALSE, TRUE, a, b))

overflow(negative, a, b) == raise_signal(infinity(negative, a, b), "OVERFLOW")

\* sum of two aligned magnitudes with signs: the four sign combinations
add_aligned(x, xneg, y, yneg, s, a, b) ==
    IF xneg = yneg THEN
        IF x + y > UIntMax THEN overflow(xneg, a, b)
        ELSE new(x + y, s, result_flags(xneg, FALSE, FALSE, a, b))
    ELSE IF x > y THEN new(x - y, s, result_flags(xneg, FALSE, FALSE, a, b))
    ELSE IF y > x THEN new(y - x, s, result_flags(yneg, FALSE, FALSE, a, b))
    ELSE new(0, s, result_flags(FALSE, FALSE, FALSE, a, b))

math_add(a, b, ctx) ==
    IF is_nan(a) \/ is_nan(b) THEN nan_invalid(a, b)
    ELSE IF is_infinite(a) /\ is_infinite(b) THEN
        IF is_negative(a) = is_negative(b) THEN infinity(is_negative(a), a, b)
        ELSE nan_invalid(a, b)
    ELSE IF is_infinite(a) THEN infinity(is_negative(a), a, b)
    ELSE IF is_infinite(b) THEN infinity(is_negative(b), a, b)
    ELSE
        LET s == IF a.scale > b.scale THEN a.scale ELSE b.scale
            x == MulPow10(a.digits, s - a.scale)
            y == MulPow10(b.digits, s - b.scale)
        IN  IF x = -1 THEN overflow(is_negative(a), a, b)
            ELSE IF y = -1 THEN overflow(is_negative(b), a, b)
            ELSE add_aligned(x, is_negative(a), y, is_negative(b), s, a, b)

math_sub(a, b, ctx) == math_add(a, neg(b), ctx)

math_mul(a, b, ctx) ==
    LET negative == is_negative(a) # is_negative(b)
    IN  IF is_nan(a) \/ is_nan(b) THEN nan_invalid(a, b)
        ELSE IF is_infinite(a) \/ is_infinite(b) THEN
            IF (is_finite(a) /\ is_zero(a)) \/ (is_finite(b) /\ is_zero(b))
            THEN nan_invalid(a, b)
            ELSE infinity(negative, a, b)
        ELSE IF b.digits # 0 /\ a.digits > UIntMax \div b.digits
            THEN overflow(negative, a, b)
        ELSE new(a.digits * b.digits, a.scale + b.scale,
                 result_flags(negative, FALSE, FALSE, a, b))

\* long division: extend the quotient by one digit while a remainder is
\* left and the coefficient has room for another digit
RECURSIVE div_loop(_, _, _, _)
div_loop(q, r, d, s) ==
    IF r = 0 \/ q * 10 + 9 > UIntMax THEN [q |-> q, r |-> r, scale |-> s]
    ELSE div_loop(q * 10 + (r * 10) \div d, (r * 10) % d, d, s + 1)

math_div(a, b, ctx) ==
    LET negative == is_negative(a) # is_negative(b)
    IN  IF is_nan(a) \/ is_nan(b) THEN nan_invalid(a, b)
        ELSE IF is_infinite(a) THEN
            IF is_infinite(b) THEN nan_invalid(a, b) ELSE infinity(negative, a, b)
        ELSE IF is_infinite(b) THEN
            new(0, 0, result_flags(negative, FALSE, FALSE, a, b))
        ELSE IF is_zero(b) THEN
            IF is_zero(a) THEN nan_invalid(a, b)
            ELSE raise_signal(infinity(negative, a, b), "DIV_BY_ZERO")
        ELSE
            LET l == div_loop(a.digits \div b.digits, a.digits % b.digits,
                              b.digits, a.scale - b.scale)
                lead == (l.r * 10) \div b.digits
                sticky == (l.r * 10) % b.digits # 0
                up == round_increment(ctx.rounding_mode, negative, l.q, lead, sticky)
                v == new(IF up THEN l.q + 1 ELSE l.q, l.scale,
                         result_flags(negative, FALSE, FALSE, a, b))
            IN  IF l.r = 0 THEN v
                ELSE raise_signal(raise_signal(v, "ROUNDED"), "INEXACT")

\* (c * 10^k) mod m, for m > 0
RECURSIVE MulPow10Mod(_, _, _)
MulPow10Mod(c, k, m) ==
    IF k = 0 \/ c % m = 0 THEN c % m ELSE MulPow10Mod((c % m) * 10, k - 1, m)

math_rem(a, b, ctx) ==
    IF is_nan(a) \/ is_nan(b) \/ is_infinite(a) THEN nan_invalid(a, b)
    ELSE IF is_infinite(b) THEN with_signals_from(a, b)
    ELSE IF is_zero(b) THEN nan_invalid(a, b)
    ELSE
        LET s == IF a.scale > b.scale THEN a.scale ELSE b.scale
            y == MulPow10(b.digits, s - b.scale)
        IN  IF y = -1 THEN with_signals_from(a, b)
            ELSE new(MulPow10Mod(a.digits, s - a.scale, y), s,
                     result_flags(is_negative(a), FALSE, FALSE, a, b))

\* add delegating to the subtraction routine
add_calls_sub(a, b, ctx) == unwrap_signals(math_sub(a, b, ctx), ctx)

add(a, b, ctx) == unwrap_signals(math_add(a, b, ctx), ctx)

sub(a, b, ctx) == unwrap_signals(math_sub(a, b, ctx), ctx)

mul(a, b, ctx) == unwrap_signals(math_mul(a, b, ctx), ctx)

div(a, b, ctx) == unwrap_signals(math_div(a, b, ctx), ctx)

rem(a, b, ctx) == unwrap_signals(math_rem(a, b, ctx), ctx)

----------------------------------------------------------------------------
(* Operand sets.                                                           *)

SignalSets == {{}, {"SUBNORMAL"}, {"INEXACT"}, {"INVALID"}, {"INEXACT", "ROUNDED"}}

FlagSets == [neg : BOOLEAN, nan : BOOLEAN, inf : BOOLEAN, signals : SignalSets]

\* operands of the one-argument operations: every flag combination
UnaryDigits == {0, 1, 5, 10, 100, 1234500, UIntMax}
UnaryScales == {I16_MIN, I16_MIN + 1, -2, 0, 1, 2, I16_MAX}
UnaryVals == [digits : UnaryDigits, scale : UnaryScales, flags : FlagSets]

Finite(c, s, n) == new(c, s, [flags_default EXCEPT !.neg = n])

\* operands of the two- and three-argument operations
ArithVals ==
    {Finite(c, s, n) : c \in {0, 1, 2, 5, UIntMax}, s \in {0, 1}, n \in BOOLEAN}
    \cup {NAN, neg(NAN), INFINITY, NEG_INFINITY}
    \cup {raise_signal(ONE, "INEXACT"), raise_signal(ZERO, "SUBNORMAL"),
          raise_signal(NAN, "INVALID"), Finite(10, 1, FALSE)}

TrapPolicies == {{}, DefaultTraps, Signals}

Contexts == [rounding_mode : RoundingModes, traps : TrapPolicies]

\* contexts of the operations that never round
PlainContexts == [rounding_mode : {"HalfUp"}, traps : TrapPolicies]

\* operands of the rescaler
RoundDigits == {0, 1, 5, 15, 25, 149, 150, 151, 1234500, 12941675}
RoundVals ==
    {Finite(c, s, n) : c \in RoundDigits, s \in {0, 1, 2, 5}, n \in BOOLEAN}
    \cup {NAN, NEG_INFINITY, raise_signal(Finite(15, 1, TRUE), "INVALID"), MAX}
NewScales == {-1, 0, 1, 2, 4}

\* exponents given to from_scale
Exponents == {I16_MIN, I16_MIN + 1, -3, -1, 0, 1, 3, I16_MAX - 1, I16_MAX}

NoArg == Nothing
\* calls without a scale argument record scale 0

\* no call has returned
NoReturn == [outcome |-> "none", value |-> Nothing]

Call(op, a, b, c, ctx, scale) ==
    [op |-> op, a |-> a, b |-> b, c |-> c, ctx |-> ctx, scale |-> scale]

----------------------------------------------------------------------------
(* The call machine.                                                       *)

Init ==
    /\ debug_assertions \in BOOLEAN
    /\ nan_order \in {"greatest", "least"}
    /\ call = Call("none", NoArg, NoArg, NoArg, NoArg, 0)
    /\ ret = NoReturn
    /\ trap_checks = 0

Idle == call.op = "none"

Config == UNCHANGED <<debug_assertions, nan_order>>

\* the caller takes the result; the next call can start
Return ==
    /\ ~Idle
    /\ call' = Call("none", NoArg, NoArg, NoArg, NoArg, 0)
    /\ ret' = NoReturn
    /\ Config
    /\ trap_checks' = 0

Classify ==
    /\ Idle
    /\ \E a \in UnaryVals :
        /\ call' = Call("classify", a, NoArg, NoArg, NoArg, 0)
        /\ ret' = Ok([category |-> classify(a)])
        /\ Config
        /\ trap_checks' = 0

IsNormal ==
    /\ Idle
    /\ \E a \in UnaryVals :
        /\ call' = Call("is_normal", a, NoArg, NoArg, NoArg, 0)
        /\ ret' = Ok([bool |-> is_normal(a)])
        /\ Config
        /\ trap_checks' = 0

Neg ==
    /\ Idle
    /\ \E a \in UnaryVals :
        /\ call' = Call("neg", a, NoArg, NoArg, NoArg, 0)
        /\ ret' = Ok(neg(a))
        /\ Config
        /\ trap_checks' = 0

Abs ==
    /\ Idle
    /\ \E a \in UnaryVals :
        /\ call' = Call("abs", a, NoArg, NoArg, NoArg, 0)
        /\ ret' = Ok(abs(a))
        /\ Config
        /\ trap_checks' = 0

Normalized ==
    /\ Idle
    /\ \E a \in UnaryVals, ctx \in PlainContexts :
        /\ call' = Call("normalized", a, NoArg, NoArg, ctx, 0)
        /\ ret' = normalized(a, ctx)
        /\ Config
        /\ trap_checks' = IF normalize_normalize(a).outcome = "panic" THEN 0
                          ELSE unwrap_signals_checks

Max ==
    /\ Idle
    /\ \E a \in ArithVals, b \in ArithVals :
        /\ call' = Call("max", a, b, NoArg, NoArg, 0)
        /\ ret' = Ok(max(a, b))
        /\ Config
        /\ trap_checks' = 0

Min ==
    /\ Idle
    /\ \E a \in ArithVals, b \in ArithVals :
        /\ call' = Call("min", a, b, NoArg, NoArg, 0)
        /\ ret' = Ok(min(a, b))
        /\ Config
        /\ trap_checks' = 0

Clamp ==
    /\ Idle
    /\ \E a \in ArithVals, lo \in ArithVals, hi \in ArithVals :
        /\ call' = Call("clamp", a, lo, hi, NoArg, 0)
        /\ ret' = clamp(a, lo, hi)
        /\ Config
        /\ trap_checks' = 0

Add ==
    /\ Idle
    /\ \E a \in ArithVals, b \in ArithVals, ctx \in PlainContexts :
        /\ call' = Call("add", a, b, NoArg, ctx, 0)
        /\ ret' = add(a, b, ctx)
        /\ Config
        /\ trap_checks' = unwrap_signals_checks

Sub ==
    /\ Idle
    /\ \E a \in ArithVals, b \in ArithVals, ctx \in PlainContexts :
        /\ call' = Call("sub", a, b, NoArg, ctx, 0)
        /\ ret' = sub(a, b, ctx)
        /\ Config
        /\ trap_checks' = unwrap_signals_checks

Mul ==
    /\ Idle
    /\ \E a \in ArithVals, b \in ArithVals, ctx \in PlainContexts :
        /\ call' = Call("mul", a, b, NoArg, ctx, 0)
        /\ ret' = mul(a, b, ctx)
        /\ Config
        /\ trap_checks' = unwrap_signals_checks

Div ==
    /\ Idle
    /\ \E a \in ArithVals, b \in ArithVals, ctx \in Contexts :
        /\ call' = Call("div", a, b, NoArg, ctx, 0)
        /\ ret' = div(a, b, ctx)
        /\ Config
        /\ trap_checks' = unwrap_signals_checks

Rem ==
    /\ Idle
    /\ \E a \in ArithVals, b \in ArithVals, ctx \in PlainContexts :
        /\ call' = Call("rem", a, b, NoArg, ctx, 0)
        /\ ret' = rem(a, b, ctx)
        /\ Config
        /\ trap_checks' = unwrap_signals_checks

WithScale ==
    /\ Idle
    /\ \E a \in RoundVals, s \in NewScales, ctx \in Contexts :
        /\ call' = Call("with_scale", a, NoArg, NoArg, ctx, s)
        /\ ret' = with_scale(a, s, ctx)
        /\ Config
        /\ trap_checks' = unwrap_signals_checks

\* the context recorded for round is the one it builds for with_scale
Round ==
    /\ Idle
    /\ \E a \in RoundVals, s \in NewScales, m \in RoundingModes :
        /\ call' = Call("round", a, NoArg, NoArg,
                        with_rounding_mode(Context_default, m), s)
        /\ ret' = round(a, s, m)
        /\ Config
        /\ trap_checks' = unwrap_signals_checks

OkCall ==
    /\ Idle
    /\ \E a \in UnaryVals :
        /\ call' = Call("ok", a, NoArg, NoArg, NoArg, 0)
        /\ ret' = Ok(ok(a))
        /\ Config
        /\ trap_checks' = 0

IsOne ==
    /\ Idle
    /\ \E a \in UnaryVals :
        /\ call' = Call("is_one", a, NoArg, NoArg, NoArg, 0)
        /\ ret' = Ok([bool |-> is_one(a)])
        /\ Config
        /\ trap_checks' = 0

Signum ==
    /\ Idle
    /\ \E a \in UnaryVals :
        /\ call' = Call("signum", a, NoArg, NoArg, NoArg, 0)
        /\ ret' = Ok(signum(a))
        /\ Config
        /\ trap_checks' = 0

\* the exponent is recorded in the scale field of the call
FromScale ==
    /\ Idle
    /\ \E exp \in Exponents :
        /\ call' = Call("from_scale", NoArg, NoArg, NoArg, NoArg, exp)
        /\ ret' = from_scale(exp)
        /\ Config
        /\ trap_checks' = 0

Lt ==
    /\ Idle
    /\ \E a \in ArithVals, b \in ArithVals :
        /\ call' = Call("lt", a, b, NoArg, NoArg, 0)
        /\ ret' = Ok([bool |-> lt(a, b)])
        /\ Config
        /\ trap_checks' = 0

Le ==
    /\ Idle
    /\ \E a \in ArithVals, b \in ArithVals :
        /\ call' = Call("le", a, b, NoArg, NoArg, 0)
        /\ ret' = Ok([bool |-> le(a, b)])
        /\ Config
        /\ trap_checks' = 0

Gt ==
    /\ Idle
    /\ \E a \in ArithVals, b \in ArithVals :
        /\ call' = Call("gt", a, b, NoArg, NoArg, 0)
        /\ ret' = Ok([bool |-> gt(a, b)])
        /\ Config
        /\ trap_checks' = 0

Ge ==
    /\ Idle
    /\ \E a \in ArithVals, b \in ArithVals :
        /\ call' = Call("ge", a, b, NoArg, NoArg, 0)
        /\ ret' = Ok([bool |-> ge(a, b)])
        /\ Config
        /\ trap_checks' = 0

Cmp ==
    /\ Idle
    /\ \E a \in ArithVals, b \in ArithVals :
        /\ call' = Call("cmp", a, b, NoArg, NoArg, 0)
        /\ ret' = Ok([ordering |-> cmp(a, b)])
        /\ Config
        /\ trap_checks' = 0

ToScientificNotation ==
    /\ Idle
    /\ \E a \in UnaryVals :
        /\ call' = Call("to_scientific_notation", a, NoArg, NoArg, NoArg, 0)
        /\ ret' = Ok([text |-> to_scientific_notation(a)])
        /\ Config
        /\ trap_checks' = 0

ToEngineeringNotation ==
    /\ Idle
    /\ \E a \in UnaryVals :
        /\ call' = Call("to_engineering_notation", a, NoArg, NoArg, NoArg, 0)
        /\ ret' = Ok([text |-> to_engineering_notation(a)])
        /\ Config
        /\ trap_checks' = 0

Next ==
    \/ Classify \/ IsNormal \/ Neg \/ Abs \/ Normalized
    \/ Max \/ Min \/ Clamp
    \/ Add \/ Sub \/ Mul \/ Div \/ Rem
    \/ WithScale \/ Round
    \/ OkCall \/ IsOne \/ Signum
    \/ FromScale
    \/ Lt \/ Le \/ Gt \/ Ge \/ Cmp
    \/ ToScientificNotation \/ ToEngineeringNotation
    \/ Return

Spec == Init /\ [][Next]_vars

----------------------------------------------------------------------------
(* Properties.                                                             *)

TrapOps == {"add", "sub", "mul", "div", "rem", "with_scale", "round", "normalized"}

\* What the engine computed for the current call, before the trap policy
\* is consulted.
Computed ==
    CASE call.op = "add" -> Ok(math_add(call.a, call.b, call.ctx))
      [] call.op = "sub" -> Ok(math_sub(call.a, call.b, call.ctx))
      [] call.op = "mul" -> Ok(math_mul(call.a, call.b, call.ctx))
      [] call.op = "div" -> Ok(math_div(call.a, call.b, call.ctx))
      [] call.op = "rem" -> Ok(math_rem(call.a, call.b, call.ctx))
      [] call.op \in {"with_scale", "round"} ->
            Ok(scale_with_scale(call.a, call.scale, call.ctx))
      [] call.op = "normalized" -> normalize_normalize(call.a)

\* C1: in every operation that takes a context, a computed result carrying
\* a signal the trap policy traps ends the call fatally, and any other
\* result is returned with its signals; in every build configuration.
C1_TrapPolicyDecides ==
    (call.op \in TrapOps /\ Computed.outcome = "ok") =>
        IF trap_signals(call.ctx, Computed.value.flags.signals)
        THEN ret.outcome = "panic"
        ELSE ret = Computed

\* C2: classify decides in the order NaN, Infinite, Zero, Subnormal, Normal.
C2_ClassifyPriority ==
    call.op = "classify" =>
        LET f == call.a.flags
        IN  /\ f.nan => ret.value.category = "Nan"
            /\ (~f.nan /\ f.inf) => ret.value.category = "Infinite"
            /\ (~f.nan /\ ~f.inf /\ call.a.digits = 0) => ret.value.category = "Zero"
            /\ (~f.nan /\ ~f.inf /\ call.a.digits # 0 /\ "SUBNORMAL" \in f.signals)
                    => ret.value.category = "Subnormal"
            /\ (~f.nan /\ ~f.inf /\ call.a.digits # 0 /\ "SUBNORMAL" \notin f.signals)
                    => ret.value.category = "Normal"

\* a NaN that is also flagged infinite, with coefficient 0 and the
\* SUBNORMAL signal, classified Nan
C2_Witness ==
    /\ call.op = "classify"
    /\ call.a.flags.nan /\ call.a.flags.inf /\ call.a.digits = 0
    /\ "SUBNORMAL" \in call.a.flags.signals
    /\ ret.value.category = "Nan"

\* C3: is_normal(v) holds exactly when classify(v) is Normal.
C3_IsNormalIffClassifyNormal ==
    call.op = "is_normal" => (ret.value.bool <=> classify(call.a) = "Normal")

\* C4: max returns the second argument unless the first compares Greater,
\* min returns the first argument unless it compares Greater; the chosen
\* argument is returned unchanged.
C4_MaxMinTieBreak ==
    /\ call.op = "max" =>
        /\ cmp(call.a, call.b) \in {"Less", "Equal"} => ret.value = call.b
        /\ cmp(call.a, call.b) = "Greater" => ret.value = call.a
    /\ call.op = "min" =>
        /\ cmp(call.a, call.b) \in {"Less", "Equal"} => ret.value = call.a
        /\ cmp(call.a, call.b) = "Greater" => ret.value = call.b

\* max on a tie between two different bit patterns returned the second
C4_Witness ==
    /\ call.op = "max"
    /\ cmp(call.a, call.b) = "Equal"
    /\ call.a # call.b
    /\ ret.value = call.b

\* C5: clamp panics exactly when min compares Greater than max; otherwise
\* it returns min, max or self and the result lies between min and max.
C5_Clamp ==
    call.op = "clamp" =>
        /\ ret.outcome = "panic" <=> cmp(call.b, call.c) = "Greater"
        /\ ret.outcome = "ok" =>
            /\ ret.value = (IF cmp(call.a, call.b) = "Less" THEN call.b
                            ELSE IF cmp(call.a, call.c) = "Greater" THEN call.c
                            ELSE call.a)
            /\ cmp(call.b, ret.value) # "Greater"
            /\ cmp(ret.value, call.c) # "Greater"

\* a value below the interval was raised to min
C5_Witness ==
    /\ call.op = "clamp"
    /\ ret.outcome = "ok"
    /\ cmp(call.a, call.b) = "Less"
    /\ ret.value = call.b
    /\ call.a # call.b

\* C6: under a non-trapping context x / 0 is a signed infinity with
\* DIV_BY_ZERO and 0 / 0 is NaN with INVALID; under the default context
\* 1 / 0 is fatal and 5 / 2 is 2.5 with no signal.
C6_Div ==
    call.op = "div" =>
        LET a == call.a
            b == call.b
        IN  /\ (call.ctx.traps = {} /\ is_finite(a) /\ is_finite(b) /\ is_zero(b)
                    /\ ~is_zero(a)) =>
                /\ ret.outcome = "ok"
                /\ is_infinite(ret.value) /\ ~is_nan(ret.value)
                /\ is_negative(ret.value) <=> (is_negative(a) # is_negative(b))
                /\ "DIV_BY_ZERO" \in ret.value.flags.signals
            /\ (call.ctx.traps = {} /\ is_finite(a) /\ is_finite(b) /\ is_zero(b)
                    /\ is_zero(a)) =>
                /\ ret.outcome = "ok"
                /\ is_nan(ret.value)
                /\ "INVALID" \in ret.value.flags.signals
            /\ (call.ctx = Context_default /\ a = ONE /\ b = ZERO) =>
                ret.outcome = "panic"
            /\ (call.ctx = Context_default /\ a = Finite(5, 0, FALSE)
                    /\ b = Finite(2, 0, FALSE)) =>
                ret = Ok(new(25, 1, flags_default))

\* The signed integer a value rounds to when Drop fractional digits are
\* discarded, by the textbook definition of each rounding mode.
TextbookRound(n, P, mode) ==
    LET fl == n \div P                  \* toward -infinity
        ce == -((-n) \div P)            \* toward +infinity
        toward0 == IF n >= 0 THEN fl ELSE ce
        away0 == IF n >= 0 THEN ce ELSE fl
        twice == 2 * (n - fl * P)       \* twice the distance from fl
        even == IF fl % 2 = 0 THEN fl ELSE ce
        nearest(tie) == IF twice < P THEN fl ELSE IF twice > P THEN ce ELSE tie
    IN  CASE mode = "Up" -> away0
          [] mode = "Down" -> toward0
          [] mode = "Ceiling" -> ce
          [] mode = "Floor" -> fl
          [] mode = "HalfUp" -> nearest(away0)
          [] mode = "HalfDown" -> nearest(toward0)
          [] mode = "HalfEven" -> nearest(even)

Magnitude(n) == IF n < 0 THEN -n ELSE n

Signed(d) == IF is_negative(d) THEN -d.digits ELSE d.digits

Coarsening ==
    /\ call.op \in {"with_scale", "round"}
    /\ is_finite(call.a)
    /\ call.scale < call.a.scale
    /\ ret.outcome = "ok"

RECURSIVE TrailingZeros(_)
TrailingZeros(c) == IF c = 0 \/ c % 10 # 0 THEN 0 ELSE 1 + TrailingZeros(c \div 10)

\* what the claim says of a returned normalized value
NormalForm(v, r) ==
    /\ normalize_normalize(r) = Ok(r)
    /\ cmp(r, v) = "Equal"
    /\ (is_zero(v) \/ ~is_finite(v)) => r = v
    /\ (is_finite(v) /\ ~is_zero(v)) => (is_finite(r) /\ r.digits # 0 /\ r.digits % 10 # 0)

NotTrapped == ~trap_signals(call.ctx, call.a.flags.signals)

ScaleFits(v) ==
    is_zero(v) \/ ~is_finite(v) \/ v.scale - TrailingZeros(v.digits) >= I16_MIN

OnlySignDiffers(v, r) ==
    /\ r.digits = v.digits
    /\ r.scale = v.scale
    /\ r.flags.nan = v.flags.nan
    /\ r.flags.inf = v.flags.inf
    /\ r.flags.signals = v.flags.signals

\* C10: neg twice is the identity on finite values, abs of a non-NaN
\* value is not negative, and both change nothing but the sign bit.
C10_SignLaws ==
    /\ call.op = "neg" =>
        /\ is_finite(call.a) => neg(ret.value) = call.a
        /\ OnlySignDiffers(call.a, ret.value)
        /\ is_negative(ret.value) <=> ~is_negative(call.a)
    /\ call.op = "abs" =>
        /\ ~is_nan(call.a) => ~is_negative(ret.value)
        /\ OnlySignDiffers(call.a, ret.value)

\* a negative finite value carrying signals was negated
C10_Witness ==
    /\ call.op = "neg"
    /\ is_finite(call.a)
    /\ is_negative(call.a)
    /\ call.a.flags.signals # {}
    /\ ~is_negative(ret.value)


\* C11: ok returns nothing for a NaN, an infinite or a signalled value
\* and the value itself otherwise: Some iff is_finite and is_op_ok.
C11_Ok ==
    call.op = "ok" =>
        LET v == call.a
            none == v.flags.nan \/ v.flags.inf \/ v.flags.signals # {}
        IN  /\ none => ret.value = Nothing
            /\ ~none => ret.value = v
            /\ ret.value # Nothing <=> (is_finite(v) /\ is_op_ok(v))

\* a finite value whose only blemish is a signal was projected to nothing
C11_Witness ==
    /\ call.op = "ok"
    /\ is_finite(call.a)
    /\ call.a.flags.signals = {"INEXACT"}
    /\ ret.value = Nothing

\* C12: is_one holds iff the coefficient is 1, the scale is 0 and no flag
\* at all is set; 10 at scale 1, a signalled one and -1 are not one.
C12_IsOne ==
    call.op = "is_one" =>
        LET v == call.a
        IN  /\ ret.value.bool <=>
                (v.digits = 1 /\ v.scale = 0 /\ ~v.flags.neg /\ ~v.flags.nan
                    /\ ~v.flags.inf /\ v.flags.signals = {})
            /\ (v.digits = 10 /\ v.scale = 1) => ~ret.value.bool
            /\ (v.digits = 1 /\ v.scale = 0 /\ "INEXACT" \in v.flags.signals)
                    => ~ret.value.bool
            /\ (v.digits = 1 /\ v.scale = 0 /\ v.flags.neg) => ~ret.value.bool

\* a one carrying the INEXACT signal was found not to be one
C12_Witness ==
    /\ call.op = "is_one"
    /\ call.a = raise_signal(ONE, "INEXACT")
    /\ ~ret.value.bool

\* C14: signum is NaN for a NaN, else exactly -1 when the sign bit is
\* set, else exactly ONE; nothing of the operand's coefficient, scale or
\* signals is carried over.
C14_Signum ==
    call.op = "signum" =>
        LET v == call.a
            r == ret.value
        IN  /\ v.flags.nan => is_nan(r)
            /\ (~v.flags.nan /\ v.flags.neg) =>
                r = [digits |-> 1, scale |-> 0,
                     flags |-> [neg |-> TRUE, nan |-> FALSE, inf |-> FALSE,
                                signals |-> {}]]
            /\ (~v.flags.nan /\ ~v.flags.neg) => (r = ONE /\ is_one(r))
            /\ r.flags.signals = {}
            /\ r.scale = 0

\* the signum of a signalled negative infinity was exactly -1
C14_Witness ==
    /\ call.op = "signum"
    /\ call.a.flags.inf /\ call.a.flags.neg /\ ~call.a.flags.nan
    /\ call.a.flags.signals # {}
    /\ call.a.scale # 0
    /\ ret.value = neg(ONE)


\* C16: for every i16 exponent, the extremes included, from_scale returns
\* coefficient 1, scale -exp and no flags; the negation never overflows.
C16_FromScale ==
    call.op = "from_scale" =>
        /\ ret.outcome = "ok"
        /\ ret.value.digits = 1
        /\ ret.value.scale = -call.scale
        /\ ret.value.flags = flags_default


\* C17: lt, gt, le, ge follow the one comparator result (lt iff Less, gt
\* iff Greater, le iff not gt, ge iff not lt), exactly one of lt, gt and
\* Equal holds, and max, min and clamp agree with these predicates.
C17_Coherent ==
    LET a == call.a
        b == call.b
    IN  /\ call.op = "lt" => (ret.value.bool <=> cmp(a, b) = "Less")
        /\ call.op = "gt" => (ret.value.bool <=> cmp(a, b) = "Greater")
        /\ call.op = "le" => (ret.value.bool <=> ~gt(a, b))
        /\ call.op = "ge" => (ret.value.bool <=> ~lt(a, b))
        /\ call.op = "cmp" =>
            /\ ret.value.ordering \in {"Less", "Equal", "Greater"}
            /\ Cardinality({p \in {"lt", "gt", "eq"} :
                    \/ p = "lt" /\ lt(a, b)
                    \/ p = "gt" /\ gt(a, b)
                    \/ p = "eq" /\ ret.value.ordering = "Equal"}) = 1
            /\ le(a, b) <=> ret.value.ordering # "Greater"
            /\ ge(a, b) <=> ret.value.ordering # "Less"
        /\ call.op = "max" => ret.value = (IF le(a, b) THEN b ELSE a)
        /\ call.op = "min" => ret.value = (IF le(a, b) THEN a ELSE b)
        /\ call.op = "clamp" =>
            /\ ret.outcome = "panic" <=> gt(call.b, call.c)
            /\ ret.outcome = "ok" =>
                ret.value = (IF lt(a, call.b) THEN call.b
                             ELSE IF gt(a, call.c) THEN call.c
                             ELSE a)

\* le held between a NaN and a different bit pattern that ties with it
C17_Witness ==
    /\ call.op = "le"
    /\ is_nan(call.a)
    /\ call.a # call.b
    /\ cmp(call.a, call.b) = "Equal"
    /\ ret.value.bool


\* C13: in scientific and in engineering notation alike, a NaN renders as
\* "NaN" with no sign; otherwise an infinity renders as "Inf" or "-Inf" by
\* its sign, whatever its coefficient; otherwise a zero coefficient renders
\* as "0e0" or "-0e0" by its sign, whatever its scale.
C13_SpecialValues ==
    call.op \in {"to_scientific_notation", "to_engineering_notation"} =>
        LET d == call.a
            text == ret.value.text
            sign == IF d.flags.neg THEN "-" ELSE ""
        IN  /\ ret.outcome = "ok"
            /\ d.flags.nan => text = "NaN"
            /\ ~d.flags.nan /\ d.flags.inf => text = sign \o "Inf"
            /\ ~d.flags.nan /\ ~d.flags.inf /\ d.digits = 0 =>
                text = sign \o "0e0"
            /\ d.flags.nan \/ d.flags.inf \/ d.digits = 0 =>
                to_scientific_notation(d) = to_engineering_notation(d)

\* a NaN with the sign and infinity bits set and a zero coefficient was rendered
C13_Witness ==
    /\ call.op = "to_scientific_notation"
    /\ call.a.flags.nan /\ call.a.flags.neg /\ call.a.flags.inf
    /\ call.a.digits = 0
    /\ ret.value.text = "NaN"

\* section 4.7's example: coefficient 12345678 at scale 0
FormatExample ==
    /\ format_write_scientific_notation("12345678", 0) = "1.2345678e7"
    /\ format_write_engineering_notation("12345678", 0) = "12.345678e6"


\* C15: in add, sub, mul, div, rem, with_scale, round and normalized the
\* trap policy is applied exactly once, after the result and its signals
\* (those of the operands and the new ones) are computed, and a call that
\* returns gives back exactly the value that was checked.
C15_TrapOnceLast ==
    (call.op \in TrapOps /\ Computed.outcome = "ok") =>
        /\ trap_checks = 1
        /\ call.a.flags.signals \subseteq Computed.value.flags.signals
        /\ call.op \in {"add", "sub", "mul", "div", "rem"} =>
                call.b.flags.signals \subseteq Computed.value.flags.signals
        /\ ret.outcome = "ok" => ret = Computed

====
